---- MODULE Spec2Model ----
(***************************************************************************)
(* mq_exporter: the bounded-time collection cycle (collector.collect), the *)
(* gauge-mapping shell (QueueCollector.Collect) and the connection         *)
(* lifecycle of mq.MqConnection (connect / handleReturnValue / Read).      *)
(***************************************************************************)
EXTENDS Integers, Sequences, FiniteSets, TLC

\* ---------------------------------------------------------------- bounds
MaxQueues == 3      \* configured queue names are 1..k for some k <= MaxQueues
MaxCycles == 2      \* calls of Collect per behaviour
NumScrapers == 2    \* concurrent callers of Collect (HTTP scrapes)
MaxSignals == 2     \* connection-broken failures of Inq per behaviour
MaxCloseQueues == 2 \* configured queues in the behaviours with a shutdown

\* ----------------------------------------------------- program constants
YES == 1
NO == 0

VARIABLES
  app,          \* process: "startup" | "serving" | "exited" | "stopped" | "crashed"
  cfg,          \* the MqConfiguration read from the YAML file (without Queues)
  verr,         \* what validateReadFromYaml returned
  cfgQueues,    \* cfg.Queues
  isConnecting, \* *c.isConnecting
  qMgr,         \* c.qMgr: id of the connection held, 0 before the first Connx
  handles,      \* c.queues: queue name -> id of the connection the handle was opened on
  nconn,        \* number of connections Connx has established so far
  gpc,          \* goroutine g of the connection: its position
  gidx,         \* connect(): index into cfg.Queues of the next Open
  queues,       \* QueueCollector.queues
  mutex,        \* QueueCollector.Mutex: the scraper holding it, 0 when free
  pc,           \* scraper s: its position in Collect
  cyc,          \* scraper s: the cycle (call of collect) it runs
  scrapesLeft,  \* environment: calls of Collect still to come
  breaksLeft,   \* environment: connection-broken failures of Inq still to come
  ctxErr,       \* cycle c: ctx.Err()
  closed,       \* cycle c: ch has been closed
  dlog,         \* cycle c: "Deadline exceeded while waiting for queue metrics" was logged
  metrics,      \* cycle c: the slice collect builds and returns
  tpc,          \* cycle c: position of the background goroutine
  tidx,         \* cycle c: the goroutine's index into queues
  tval,         \* cycle c: (metric, err) of the Read that returned last
  inflight,     \* cycle c: index of the Read in flight when the deadline fired, else 0
  issued,       \* cycle c: indexes of the Reads issued, in order
  okReads,      \* cycle c: indexes whose Read returned a metric without error
  rhandle,      \* cycle c: the MQObject resolveQueue gave the Read in flight (0: the zero value)
  failed,       \* cycle c: <<index, error>> of the Reads that returned an error
  late,         \* cycles whose goroutine had a Read return after its collect, while a later one ran
  during,       \* goroutines started by a signal that arrived while a connect() was in flight
  envHandles,   \* queue manager: <<connection, queue>> of the object handles that are open
  envConns,     \* queue manager: the connections that are connected
  brokenConns,  \* queue manager: the connections an inquiry has reported broken
  sig,          \* the signal goroutine of run: "wait" | "closing" | "disc" | "closed"
  cmapId,       \* Close: the connection whose connect() made the map the range iterates
  cmap,         \* Close: the entries of that map the range produces
  ctodo,        \* Close: the keys the range has not visited yet
  clog,         \* Close: the queues logged with "failed to close queue"
  cconn,        \* Close: the connection Disc was called on, 0 before
  up, currentDepth, maxDepth, openInputCount, openOutputCount, requestDuration,
  emitted       \* what the Collect that finished last sent to the registry

cfgVars == <<cfg, verr, cfgQueues>>
gaugeVars == <<up, currentDepth, maxDepth, openInputCount, openOutputCount, requestDuration>>
connVars == <<isConnecting, qMgr, handles, nconn, gidx>>
goVars == <<gpc, breaksLeft, during>>
envVars == <<envHandles, envConns, brokenConns>>
closeVars == <<sig, cmapId, cmap, ctodo, clog, cconn>>
cycleVars == <<ctxErr, closed, dlog, metrics, tpc, tidx, tval, inflight, issued, okReads, rhandle, failed, late>>
scrapeVars == <<mutex, pc, cyc, scrapesLeft, emitted>>
vars == <<app, cfgVars, connVars, goVars, envVars, closeVars, queues, scrapeVars, cycleVars, gaugeVars>>

Scrapers == 1..NumScrapers
Cycles == 1..MaxCycles
Goroutines == 0..MaxSignals   \* 0 is the goroutine of main (NewMqConnection)

\* ------------------------------------------------------------ data model
cfgConnName == "localhost(1414)"
cfgQueueManager == "QM1"
cfgChannel == "DEV.APP.SVRCONN"

\* The attribute values an inquiry can answer with, and the time it took.
InqResults ==
  { [MQIA_MAX_Q_DEPTH |-> 500, MQIA_CURRENT_Q_DEPTH |-> 1,
     MQIA_OPEN_INPUT_COUNT |-> 0, MQIA_OPEN_OUTPUT_COUNT |-> 2, elapsed |-> 422679],
    [MQIA_MAX_Q_DEPTH |-> 5000, MQIA_CURRENT_Q_DEPTH |-> 7,
     MQIA_OPEN_INPUT_COUNT |-> 3, MQIA_OPEN_OUTPUT_COUNT |-> 4, elapsed |-> 1500000000] }

\* The MQReturn of a failed inquiry: connection broken, or any other reason.
MQRC_CONNECTION_BROKEN == "MQRC_CONNECTION_BROKEN"
MQRC_OTHER == "MQRC_OTHER"
InqErrors == {MQRC_CONNECTION_BROKEN, MQRC_OTHER}

NoMetric == [err |-> "none", metric |-> <<>>]
EmptyVec == [l \in {} |-> 0]
NoEmission == [sent |-> FALSE]

\* mq.MqConnection.Queues: the metadata of one entry
QueueMetadata(q) ==
  [QueueName |-> q, ConnectionName |-> cfgConnName,
   QMgrName |-> cfgQueueManager, ChannelName |-> cfgChannel]

prometheusLabelValues(m) ==
  <<m.QueueName, m.ConnectionName, m.QMgrName, m.ChannelName>>

\* A faulty variant: Read leaves the Metadata of the QueueMetrics at its zero value
ReadMetricsWithoutMetadata(q, r) ==
  [Metadata |-> [QueueName |-> 0, ConnectionName |-> "", QMgrName |-> "", ChannelName |-> ""],
   MaxDepth |-> r.MQIA_MAX_Q_DEPTH,
   CurrentDepth |-> r.MQIA_CURRENT_Q_DEPTH,
   OpenInputCount |-> r.MQIA_OPEN_INPUT_COUNT,
   OpenOutputCount |-> r.MQIA_OPEN_OUTPUT_COUNT,
   RequestDuration |-> r.elapsed]

\* mq.MqQueue.Read, the success branch: the QueueMetrics built from the inquiry
ReadMetrics(q, r) ==
  [Metadata |-> QueueMetadata(q),
   MaxDepth |-> r.MQIA_MAX_Q_DEPTH,
   CurrentDepth |-> r.MQIA_CURRENT_Q_DEPTH,
   OpenInputCount |-> r.MQIA_OPEN_INPUT_COUNT,
   OpenOutputCount |-> r.MQIA_OPEN_OUTPUT_COUNT,
   RequestDuration |-> r.elapsed]

\* time.Duration.Seconds: whole seconds plus the nanosecond remainder over 1e9
Seconds(d) == [sec |-> d \div 1000000000, nsec |-> d % 1000000000]

\* GaugeVec.WithLabelValues(lvs...).Set(v)
SetGauge(vec, lvs, v) ==
  [l \in DOMAIN vec \cup {lvs} |-> IF l = lvs THEN v ELSE vec[l]]

\* The orders in which ranging over the map c.queues can visit its keys
MapOrders(S) ==
  { f \in [1..Cardinality(S) -> S] : \A i, j \in 1..Cardinality(S) : i # j => f[i] # f[j] }

\* ------------------------------------ MqConfiguration.validateReadFromYaml
\* The values a string field of the configuration can have: absent or given
FieldValues(given) == {"", given}

\* The values of cfg.Timeout, a *time.Duration: nil (the empty tuple), or the
\* tuple of a duration in nanoseconds (-1s, 0, 500us, 1ms, 1.5s)
Timeouts == {<<>>, <<-1000000000>>, <<0>>, <<500000>>, <<1000000>>, <<1500000000>>}

\* The configurations a YAML file can yield
Configs ==
  [QueueManager : FieldValues("QM1"), ConnName : FieldValues("localhost(1414)"),
   Channel : FieldValues("DEV.APP.SVRCONN"),
   User : FieldValues("app"), Password : FieldValues("passw0rd"),
   SSLCipherSpec : FieldValues("TLS_RSA_WITH_AES_128_CBC_SHA256"),
   KeyRepository : FieldValues("./"), Timeout : Timeouts]

\* The configuration of a run that got past the validation
TestCfg ==
  [QueueManager |-> "QM1", ConnName |-> "localhost(1414)", Channel |-> "DEV.APP.SVRCONN",
   User |-> "app", Password |-> "passw0rd",
   SSLCipherSpec |-> "TLS_RSA_WITH_AES_128_CBC_SHA256", KeyRepository |-> "./",
   Timeout |-> <<1500000000>>]

\* An error of fmt.Errorf: its text, and for "missing mandatory fields: %s"
\* the names that strings.Join puts after it
Errorf(msg, fields) == [msg |-> msg, fields |-> fields]
NoError == Errorf("nil", <<>>)

\* time.Duration.Milliseconds: the integer division by 1e6, truncated toward zero
Milliseconds(d) == IF d >= 0 THEN d \div 1000000 ELSE -((-d) \div 1000000)

\* The appends to missingMandatoryFields, in the order of the three checks
missingMandatoryFields(c) ==
  (IF c.QueueManager = "" THEN <<"'queueManager'">> ELSE <<>>)
    \o (IF c.ConnName = "" THEN <<"'connName'">> ELSE <<>>)
    \o (IF c.Channel = "" THEN <<"'channel'">> ELSE <<>>)

\* A faulty variant: the timeout check only rejects nil and negative durations
TimeoutRejectedIfNegative(c) == c.Timeout = <<>> \/ c.Timeout[1] < 0

\* cfg.Timeout == nil || cfg.Timeout.Milliseconds() <= 0
TimeoutRejected(c) == c.Timeout = <<>> \/ Milliseconds(c.Timeout[1]) <= 0

\* A faulty variant: the pair check only fires when the first member is set
PairIncompleteFirstOnly(a, b) == a # "" /\ b = ""

\* a == "" && b != "" || (a != "" && b == "")
PairIncomplete(a, b) == (a = "" /\ b # "") \/ (a # "" /\ b = "")

\* A faulty variant: the credential check comes before the mandatory fields
validateCredentialsFirst(c) ==
  IF PairIncomplete(c.User, c.Password)
    THEN Errorf("requires both 'user' and 'password'", <<>>)
  ELSE IF Len(missingMandatoryFields(c)) > 0
    THEN Errorf("missing mandatory fields", missingMandatoryFields(c))
  ELSE IF PairIncomplete(c.SSLCipherSpec, c.KeyRepository)
    THEN Errorf("requires both 'sslCipherSpec' and 'keyRepository'", <<>>)
  ELSE IF TimeoutRejected(c)
    THEN Errorf("requires strict positive 'timeout'", <<>>)
  ELSE NoError

validateReadFromYaml(c) ==
  IF Len(missingMandatoryFields(c)) > 0
    THEN Errorf("missing mandatory fields", missingMandatoryFields(c))
  ELSE IF PairIncomplete(c.User, c.Password)
    THEN Errorf("requires both 'user' and 'password'", <<>>)
  ELSE IF PairIncomplete(c.SSLCipherSpec, c.KeyRepository)
    THEN Errorf("requires both 'sslCipherSpec' and 'keyRepository'", <<>>)
  ELSE IF TimeoutRejected(c)
    THEN Errorf("requires strict positive 'timeout'", <<>>)
  ELSE NoError

\* The state of everything but the configuration before NewMqConnection
\* connects; the environment will issue `scrapes` scrapes and break the
\* connection under `breaks` inquiries.
InitState(scrapes, breaks) ==
  /\ scrapesLeft = scrapes
  /\ breaksLeft = breaks
  /\ \E k \in 0..MaxQueues : cfgQueues = [i \in 1..k |-> i]
  /\ isConnecting = NO
  /\ qMgr = 0
  /\ handles = EmptyVec
  /\ nconn = 0
  /\ gpc = [g \in Goroutines |-> IF g = 0 THEN "cas" ELSE "idle"]
  /\ gidx = 0
  /\ queues = <<>>
  /\ mutex = 0
  /\ pc = [s \in Scrapers |-> "idle"]
  /\ cyc = [s \in Scrapers |-> 0]
  /\ ctxErr = [c \in Cycles |-> "nil"]
  /\ closed = [c \in Cycles |-> FALSE]
  /\ dlog = [c \in Cycles |-> FALSE]
  /\ metrics = [c \in Cycles |-> <<>>]
  /\ tpc = [c \in Cycles |-> "idle"]
  /\ tidx = [c \in Cycles |-> 0]
  /\ tval = [c \in Cycles |-> NoMetric]
  /\ inflight = [c \in Cycles |-> 0]
  /\ issued = [c \in Cycles |-> <<>>]
  /\ okReads = [c \in Cycles |-> {}]
  /\ rhandle = [c \in Cycles |-> 0]
  /\ failed = [c \in Cycles |-> {}]
  /\ late = {}
  /\ during = {}
  /\ envHandles = {}
  /\ envConns = {}
  /\ brokenConns = {}
  /\ sig = "wait"
  /\ cmapId = 0
  /\ cmap = EmptyVec
  /\ ctodo = {}
  /\ clog = {}
  /\ cconn = 0
  /\ up = EmptyVec
  /\ currentDepth = EmptyVec
  /\ maxDepth = EmptyVec
  /\ openInputCount = EmptyVec
  /\ openOutputCount = EmptyVec
  /\ requestDuration = EmptyVec
  /\ emitted = NoEmission

\* The state main is in when NewMqConnection has validated the configuration
\* and is about to connect.
InitWith(scrapes, breaks) ==
  /\ app = "startup"
  /\ cfg = TestCfg
  /\ verr = NoError
  /\ InitState(scrapes, breaks)

\* NewMqConnection has read some configuration and is about to validate it.
InitValidate ==
  /\ app = "config"
  /\ cfg \in Configs
  /\ verr = NoError
  /\ InitState(0, 0)

\* NewMqConnection: "if err := cfg.validateReadFromYaml(); err != nil { return
\* nil, err }"; run ends the process on the error.
Validate ==
  /\ app = "config"
  /\ verr' = validateReadFromYaml(cfg)
  /\ app' = IF verr' = NoError THEN "startup" ELSE "exited"
  /\ UNCHANGED <<cfg, cfgQueues, connVars, goVars, envVars, closeVars, queues,
                 scrapeVars, cycleVars, gaugeVars>>

\* Scrapes against a queue manager whose connection stays up.
Init == InitWith(MaxCycles, 0)

\* One scrape against a queue manager whose connection breaks.
InitConn == InitWith(1, MaxSignals)

\* One scrape, one broken connection, and the process is told to stop.
InitClose == InitWith(1, 1) /\ Len(cfgQueues) <= MaxCloseQueues

\* ------------------------------------------------- mq.MqConnection.connect
\* The process is alive: it neither exited at startup nor died of a panic.
Alive == app \in {"startup", "serving"}

\* A faulty variant: a re-connect goroutine calls connect() again on an error
AfterConnectRetries(g, ok) ==
  /\ gpc' = [gpc EXCEPT ![g] = IF g # 0 /\ ~ok THEN "cas" ELSE "done"]
  /\ IF g = 0
       THEN IF ok
              THEN /\ app' = "serving"
                   /\ queues' \in MapOrders(DOMAIN handles)
              ELSE /\ app' = "exited"
                   /\ UNCHANGED queues
       ELSE UNCHANGED <<app, queues>>

\* What the caller of connect() does with its result.  main (goroutine 0,
\* NewMqConnection): an error ends the process, success builds the collector
\* over Queues().  A re-connect goroutine only logs.
AfterConnect(g, ok) ==
  /\ gpc' = [gpc EXCEPT ![g] = "done"]
  /\ IF g = 0
       THEN IF ok
              THEN /\ app' = "serving"
                   /\ queues' \in MapOrders(DOMAIN handles)
              ELSE /\ app' = "exited"
                   /\ UNCHANGED queues
       ELSE UNCHANGED <<app, queues>>

\* A faulty variant: connect() sets the flag without comparing
ConnectWithoutCAS(g) ==
  /\ Alive
  /\ gpc[g] = "cas"
  /\ isConnecting' = YES
  /\ gidx' = 0
  /\ gpc' = [gpc EXCEPT ![g] = IF Len(cfgQueues) > 0 THEN "connx" ELSE "ret_ok"]
  /\ UNCHANGED <<app, queues>>
  /\ UNCHANGED <<cfgVars, qMgr, handles, nconn, breaksLeft, during, envVars, closeVars,
                 scrapeVars, cycleVars, gaugeVars>>

\* atomic.CompareAndSwapInt64(c.isConnecting, NO, YES); the loser returns
\* "connect still in progress" before the deferred store is registered.
ConnectCAS(g) ==
  /\ Alive
  /\ gpc[g] = "cas"
  /\ IF isConnecting = NO
       THEN /\ isConnecting' = YES
            /\ gidx' = 0
            /\ gpc' = [gpc EXCEPT ![g] = IF Len(cfgQueues) > 0 THEN "connx" ELSE "ret_ok"]
            /\ UNCHANGED <<app, queues>>
       ELSE /\ UNCHANGED <<isConnecting, gidx>>
            /\ AfterConnect(g, FALSE)
  /\ UNCHANGED <<cfgVars, qMgr, handles, nconn, breaksLeft, during, envVars, closeVars,
                 scrapeVars, cycleVars, gaugeVars>>

\* ibmmq.Connx, then c.qMgr = qMgr and c.queues = make(map)
ConnectConnx(g) ==
  /\ Alive
  /\ gpc[g] = "connx"
  /\ \E ok \in BOOLEAN :
       IF ok
         THEN /\ nconn' = nconn + 1
              /\ qMgr' = nconn + 1
              /\ envConns' = envConns \cup {nconn + 1}
              /\ handles' = EmptyVec
              /\ gidx' = 1
              /\ gpc' = [gpc EXCEPT ![g] = "open"]
         ELSE /\ gpc' = [gpc EXCEPT ![g] = "ret_err"]
              /\ UNCHANGED <<nconn, qMgr, envConns, handles, gidx>>
  /\ UNCHANGED <<app, cfgVars, isConnecting, breaksLeft, during, envHandles, brokenConns,
                 closeVars, queues, scrapeVars, cycleVars, gaugeVars>>

\* A faulty variant: a failing Open is skipped and the loop goes on
OpenFailedSkips(g) ==
  /\ gidx' = gidx + 1
  /\ gpc' = [gpc EXCEPT ![g] = IF gidx = Len(cfgQueues) THEN "ret_ok" ELSE "open"]

\* "if err != nil { return err }" after qMgr.Open: connect() returns the error
OpenFailed(g) ==
  /\ gpc' = [gpc EXCEPT ![g] = "ret_err"]
  /\ UNCHANGED gidx

\* Close is ranging over the map connect() writes to.
CloseRangesThisMap == sig = "closing" /\ cmapId = qMgr

\* One round of the loop over cfg.Queues: qMgr.Open, then c.queues[qName] = queue.
\* Open can succeed only on a connection that is still connected.  An entry
\* created while Close ranges over the same map may be produced by that range
\* or may be skipped.
ConnectOpen(g) ==
  /\ Alive
  /\ gpc[g] = "open"
  /\ \E ok \in BOOLEAN :
       IF ok
         THEN /\ qMgr \in envConns
              /\ envHandles' = envHandles \cup {<<qMgr, cfgQueues[gidx]>>}
              /\ handles' = SetGauge(handles, cfgQueues[gidx], qMgr)
              /\ gidx' = gidx + 1
              /\ gpc' = [gpc EXCEPT ![g] = IF gidx = Len(cfgQueues) THEN "ret_ok" ELSE "open"]
              /\ \E produced \in {b \in BOOLEAN : b => CloseRangesThisMap} :
                   IF produced
                     THEN /\ cmap' = SetGauge(cmap, cfgQueues[gidx], qMgr)
                          /\ ctodo' = ctodo \cup {cfgQueues[gidx]}
                     ELSE UNCHANGED <<cmap, ctodo>>
         ELSE /\ OpenFailed(g)
              /\ UNCHANGED <<handles, envHandles, cmap, ctodo>>
  /\ UNCHANGED <<app, cfgVars, isConnecting, qMgr, nconn, breaksLeft, during, envConns,
                 brokenConns, sig, cmapId, clog, cconn, queues, scrapeVars, cycleVars, gaugeVars>>

\* The deferred atomic.StoreInt64(c.isConnecting, NO), and the return to the caller
ConnectReturn(g) ==
  /\ Alive
  /\ gpc[g] \in {"ret_ok", "ret_err"}
  /\ isConnecting' = NO
  /\ AfterConnect(g, gpc[g] = "ret_ok")
  /\ UNCHANGED <<cfgVars, qMgr, handles, nconn, gidx, breaksLeft, during, envVars, closeVars,
                 scrapeVars, cycleVars, gaugeVars>>

\* ------------------------------------------------ collector.QueueCollector
Running == app = "serving"

Labels == { prometheusLabelValues(QueueMetadata(queues[i])) : i \in 1..Len(queues) }

\* QueueCollector.reset on the up vector: Set(0) for every configured queue
ResetUp(vec) ==
  [l \in DOMAIN vec \cup Labels |-> IF l \in Labels THEN 0 ELSE vec[l]]

\* A faulty variant: the vector is not reset
ResetVecKeepsValues(vec) == vec

\* GaugeVec.Reset
ResetVec(vec) == EmptyVec

\* The loop of Collect over *metrics for one vector: vals[i] is what is Set
\* under the label values of ms[i].
RECURSIVE Populate(_, _, _)
Populate(vec, ms, vals) ==
  IF ms = <<>> THEN vec
  ELSE Populate(SetGauge(vec, prometheusLabelValues(Head(ms).Metadata), Head(vals)),
                Tail(ms), Tail(vals))

\* A faulty variant: every count gauge is set from CurrentDepth
FieldCurrentDepth(ms, f) == [i \in 1..Len(ms) |-> ms[i].CurrentDepth]

\* float64(m.<f>) for each metric of the result
Field(ms, f) == [i \in 1..Len(ms) |-> ms[i][f]]
Ones(ms) == [i \in 1..Len(ms) |-> 1]
DurationSeconds(ms) == [i \in 1..Len(ms) |-> Seconds(ms[i].RequestDuration)]

\* The cycle a call of collect gets: cycles are numbered in the order they start.
NextCycle == 1 + Cardinality({c \in Cycles : tpc[c] # "idle"})

\* A scrape arrives: Collect is called and waits for the mutex.
CollectCall(s) ==
  /\ Running
  /\ pc[s] = "idle"
  /\ scrapesLeft > 0
  /\ pc' = [pc EXCEPT ![s] = "lock"]
  /\ scrapesLeft' = scrapesLeft - 1
  /\ UNCHANGED <<app, cfgVars, connVars, goVars, envVars, closeVars, queues, mutex, cyc, emitted, cycleVars, gaugeVars>>

\* A faulty variant: Collect does not take the mutex
MutexIgnored(s) == TRUE

\* c.Lock() can return: nobody holds the mutex
MutexFree(s) == mutex = 0

\* Collect up to the select of collect: Lock, reset, and collect's prologue
\* (context.WithTimeout, make(chan), go func).
CollectEnter(s) ==
  /\ Running
  /\ pc[s] = "lock"
  /\ MutexFree(s)
  /\ mutex' = s
  /\ up' = ResetUp(up)
  /\ currentDepth' = ResetVec(currentDepth)
  /\ maxDepth' = ResetVec(maxDepth)
  /\ openInputCount' = ResetVec(openInputCount)
  /\ openOutputCount' = ResetVec(openOutputCount)
  /\ requestDuration' = ResetVec(requestDuration)
  /\ cyc' = [cyc EXCEPT ![s] = NextCycle]
  /\ tpc' = [tpc EXCEPT ![NextCycle] = "loop"]
  /\ tidx' = [tidx EXCEPT ![NextCycle] = 1]
  /\ pc' = [pc EXCEPT ![s] = "select"]
  /\ emitted' = NoEmission
  /\ UNCHANGED <<app, cfgVars, connVars, goVars, envVars, closeVars, queues, scrapesLeft,
                 ctxErr, closed, dlog, metrics, tval, inflight, issued, okReads, late, rhandle, failed>>

\* The timer of context.WithTimeout expires.
DeadlineFire(c) ==
  /\ Running
  /\ tpc[c] # "idle"
  /\ ctxErr[c] = "nil"
  /\ ctxErr' = [ctxErr EXCEPT ![c] = "DeadlineExceeded"]
  /\ inflight' = [inflight EXCEPT ![c] = IF tpc[c] = "reading" /\ ~closed[c] THEN tidx[c] ELSE 0]
  /\ UNCHANGED <<app, cfgVars, connVars, goVars, envVars, closeVars, queues, scrapeVars,
                 closed, dlog, metrics, tpc, tidx, tval, issued, okReads, late, rhandle, failed, gaugeVars>>

\* A faulty variant: an MqQueue keeps the handle it had when Queues() made it,
\* a handle of the first connection
resolveQueueAtCreation(q) == IF q \in DOMAIN handles THEN 1 ELSE 0

\* MqConnection.resolveQueue: c.queues[q.metadata.QueueName], which is the zero
\* MQObject when the map has no such key
resolveQueue(q) == IF q \in DOMAIN handles THEN handles[q] ELSE 0

\* A goroutine is in the loop of connect() that writes c.queues[qName].
MapBeingWritten == \E g \in Goroutines : gpc[g] = "open"

\* A faulty variant: Read waits until no connect() is in progress
TaskReadWaitsForConnect(c) ==
  /\ Running
  /\ isConnecting = NO
  /\ tpc[c] = "loop"
  /\ tidx[c] <= Len(queues)
  /\ tpc' = [tpc EXCEPT ![c] = "reading"]
  /\ rhandle' = [rhandle EXCEPT ![c] = resolveQueue(queues[tidx[c]])]
  /\ issued' = [issued EXCEPT ![c] = IF closed[c] THEN @ ELSE Append(@, tidx[c])]
  /\ UNCHANGED <<app, cfgVars, connVars, goVars, envVars, closeVars, queues, scrapeVars,
                 ctxErr, closed, dlog, metrics, tidx, tval, inflight, okReads, late, failed, gaugeVars>>

\* The caller of collect cancels the context it passed as parent; the context
\* of the cycle is done with the parent's error unless it is done already.
ParentCancel(c) ==
  /\ Running
  /\ tpc[c] # "idle"
  /\ ctxErr[c] = "nil"
  /\ ctxErr' = [ctxErr EXCEPT ![c] = "Canceled"]
  /\ UNCHANGED <<app, cfgVars, connVars, goVars, envVars, closeVars, queues, scrapeVars,
                 closed, dlog, metrics, tpc, tidx, tval, inflight, issued, okReads, late, rhandle,
                 failed, gaugeVars>>

\* The goroutine of collect: the next round of "for _, queue := range queues"
\* calls queue.Reader.Read(), which resolves the handle and starts the inquiry.
\* resolveQueue takes no lock: reading the map while connect() writes it is a
\* data race, which the runtime can end with "fatal error: concurrent map read
\* and map write".
TaskRead(c) ==
  /\ Running
  /\ tpc[c] = "loop"
  /\ tidx[c] <= Len(queues)
  /\ \/ /\ tpc' = [tpc EXCEPT ![c] = "reading"]
        /\ rhandle' = [rhandle EXCEPT ![c] = resolveQueue(queues[tidx[c]])]
        /\ issued' = [issued EXCEPT ![c] = IF closed[c] THEN @ ELSE Append(@, tidx[c])]
        /\ UNCHANGED app
     \/ /\ MapBeingWritten
        /\ app' = "crashed"
        /\ tpc' = [tpc EXCEPT ![c] = "fatal"]
        /\ UNCHANGED <<rhandle, issued>>
  /\ UNCHANGED <<cfgVars, connVars, goVars, envVars, closeVars, queues, scrapeVars,
                 ctxErr, closed, dlog, metrics, tidx, tval, inflight, okReads, late, failed, gaugeVars>>

\* A faulty variant: the goroutine of collect ends without cancel()
NotCancelled(c) == ctxErr

\* The deferred cancel() of the goroutine of collect
Cancelled(c) == [ctxErr EXCEPT ![c] = IF @ = "nil" THEN "Canceled" ELSE @]

\* The goroutine of collect leaves the loop at the end of the list; the
\* deferred cancel() cancels the context unless it is done already.
TaskExit(c) ==
  /\ Running
  /\ tpc[c] = "loop"
  /\ tidx[c] > Len(queues)
  /\ tpc' = [tpc EXCEPT ![c] = "done"]
  /\ tidx' = [tidx EXCEPT ![c] = 0]
  /\ ctxErr' = Cancelled(c)
  /\ UNCHANGED <<app, cfgVars, connVars, goVars, envVars, closeVars, queues, scrapeVars,
                 closed, dlog, metrics, tval, inflight, issued, okReads, late, rhandle, failed, gaugeVars>>

\* A faulty variant: the goroutine does not look at ctx.Err() after Read
AfterReadWithoutCtxCheck(c, metric, err) ==
  IF err = "none"
    THEN /\ tpc' = [tpc EXCEPT ![c] = "send"]
         /\ tval' = [tval EXCEPT ![c] = [err |-> err, metric |-> metric]]
         /\ UNCHANGED <<tidx, ctxErr>>
    ELSE /\ tpc' = [tpc EXCEPT ![c] = "loop"]
         /\ tidx' = [tidx EXCEPT ![c] = @ + 1]
         /\ UNCHANGED <<tval, ctxErr>>

\* A faulty variant: a failed Read ends the goroutine
AfterReadAbortsOnError(c, metric, err) ==
  IF ctxErr[c] # "nil" \/ err # "none"
    THEN /\ tpc' = [tpc EXCEPT ![c] = "done"]
         /\ tidx' = [tidx EXCEPT ![c] = 0]
         /\ ctxErr' = Cancelled(c)
         /\ UNCHANGED tval
    ELSE /\ tpc' = [tpc EXCEPT ![c] = "send"]
         /\ tval' = [tval EXCEPT ![c] = [err |-> err, metric |-> metric]]
         /\ UNCHANGED <<tidx, ctxErr>>

\* A faulty variant: a Read that failed with "connection broken" is repeated
AfterReadRetriesBroken(c, metric, err) ==
  IF ctxErr[c] # "nil"
    THEN /\ tpc' = [tpc EXCEPT ![c] = "done"]
         /\ tidx' = [tidx EXCEPT ![c] = 0]
         /\ ctxErr' = Cancelled(c)
         /\ UNCHANGED tval
    ELSE IF err = "none"
      THEN /\ tpc' = [tpc EXCEPT ![c] = "send"]
           /\ tval' = [tval EXCEPT ![c] = [err |-> err, metric |-> metric]]
           /\ UNCHANGED <<tidx, ctxErr>>
      ELSE /\ tpc' = [tpc EXCEPT ![c] = "loop"]
           /\ tidx' = [tidx EXCEPT ![c] = IF err = MQRC_CONNECTION_BROKEN THEN @ ELSE @ + 1]
           /\ UNCHANGED <<tval, ctxErr>>

\* A faulty variant: the goroutine goes on with the next queue without waiting
\* for the controlling loop to receive the metric
AfterReadSendsAsync(c, metric, err) ==
  IF ctxErr[c] # "nil"
    THEN /\ tpc' = [tpc EXCEPT ![c] = "done"]
         /\ tidx' = [tidx EXCEPT ![c] = 0]
         /\ ctxErr' = Cancelled(c)
         /\ UNCHANGED tval
    ELSE /\ tpc' = [tpc EXCEPT ![c] = "loop"]
         /\ tidx' = [tidx EXCEPT ![c] = @ + 1]
         /\ tval' = [tval EXCEPT ![c] = [err |-> err, metric |-> metric]]
         /\ UNCHANGED ctxErr

\* The goroutine of collect after Read returned (metric, err): it returns when
\* the context is done (the deferred cancel() runs), sends the metric when
\* err == nil, and otherwise goes on with the next queue.
AfterRead(c, metric, err) ==
  IF ctxErr[c] # "nil"
    THEN /\ tpc' = [tpc EXCEPT ![c] = "done"]
         /\ tidx' = [tidx EXCEPT ![c] = 0]
         /\ ctxErr' = Cancelled(c)
         /\ UNCHANGED tval
    ELSE IF err = "none"
      THEN /\ tpc' = [tpc EXCEPT ![c] = "send"]
           /\ tval' = [tval EXCEPT ![c] = [err |-> err, metric |-> metric]]
           /\ UNCHANGED <<tidx, ctxErr>>
      ELSE /\ tpc' = [tpc EXCEPT ![c] = "loop"]
           /\ tidx' = [tidx EXCEPT ![c] = @ + 1]
           /\ UNCHANGED <<tval, ctxErr>>

\* The goroutine a new "go func() { c.connect() }()" becomes
FreeGoroutines == {g \in Goroutines \ {0} : gpc[g] = "idle"}
NewGoroutine == CHOOSE g \in FreeGoroutines : \A h \in FreeGoroutines : g <= h

\* A faulty variant: every failed inquiry starts a goroutine that runs connect()
handleReturnValueAnyError(mqret) == gpc' = [gpc EXCEPT ![NewGoroutine] = "cas"]

\* handleReturnValue (started by inqQueue as a goroutine of its own for every
\* error of Inq): a failed call with reason "connection broken" starts a
\* goroutine that runs connect(); any other MQReturn changes nothing.
handleReturnValue(mqret) ==
  IF mqret = MQRC_CONNECTION_BROKEN
    THEN gpc' = [gpc EXCEPT ![NewGoroutine] = "cas"]
    ELSE UNCHANGED gpc

\* The Read of cycle c returns after its collect has returned, while the
\* collect of another cycle is in its select.
ReturnedLate(c) ==
  IF closed[c] /\ \E s \in Scrapers : pc[s] = "select" /\ cyc[s] # c
    THEN late \cup {c} ELSE late

\* MqQueue.Read returns to the goroutine of collect.  The inquiry answers with
\* attribute values only on an open handle of a connected connection; it fails
\* with an MQReturn ("connection broken" only on a connection that has not been
\* disconnected); on the zero MQObject it fails or the process dies.  inqQueue
\* starts handleReturnValue for every error and Read returns the error as it is.
ReadReturn(c) ==
  /\ Running
  /\ tpc[c] = "reading"
  /\ \/ \E r \in InqResults :
          /\ <<rhandle[c], queues[tidx[c]]>> \in envHandles
          /\ rhandle[c] \in envConns
          /\ okReads' = [okReads EXCEPT ![c] = IF closed[c] THEN @ ELSE @ \cup {tidx[c]}]
          /\ late' = ReturnedLate(c)
          /\ AfterRead(c, ReadMetrics(queues[tidx[c]], r), "none")
          /\ UNCHANGED <<app, goVars, brokenConns, failed>>
     \/ \E mqret \in InqErrors :
          /\ mqret = MQRC_CONNECTION_BROKEN => breaksLeft > 0 /\ rhandle[c] \in envConns
          /\ breaksLeft' = IF mqret = MQRC_CONNECTION_BROKEN THEN breaksLeft - 1 ELSE breaksLeft
          /\ brokenConns' = IF mqret = MQRC_CONNECTION_BROKEN
                              THEN brokenConns \cup {rhandle[c]} ELSE brokenConns
          /\ during' = IF mqret = MQRC_CONNECTION_BROKEN /\ isConnecting = YES
                         THEN during \cup {NewGoroutine} ELSE during
          /\ handleReturnValue(mqret)
          /\ failed' = [failed EXCEPT ![c] = IF closed[c] THEN @ ELSE @ \cup {<<tidx[c], mqret>>}]
          /\ late' = ReturnedLate(c)
          /\ AfterRead(c, <<>>, mqret)
          /\ UNCHANGED <<app, okReads>>
     \/ /\ rhandle[c] = 0
        /\ app' = "crashed"
        /\ tpc' = [tpc EXCEPT ![c] = "fatal"]
        /\ UNCHANGED <<goVars, brokenConns, failed, okReads, late, ctxErr, tidx, tval>>
  /\ UNCHANGED <<cfgVars, connVars, envHandles, envConns, closeVars, queues, scrapeVars,
                 closed, dlog, metrics, inflight, issued, rhandle, gaugeVars>>

\* A faulty variant: the received metric is appended twice
ReceivedTwice(ms, m) == Append(Append(ms, m), m)

\* select, case metric := <-ch: the rendezvous with the goroutine's "ch <- metric"
\* and the append.
Received(ms, m) == Append(ms, m)

\* A faulty variant: all calls of collect share one channel, so the select
\* receives what the goroutine of any cycle sends
MainRecvSharedChannel(s) ==
  /\ Running
  /\ pc[s] = "select"
  /\ ~closed[cyc[s]]
  /\ \E c \in Cycles :
       /\ tpc[c] = "send"
       /\ metrics' = [metrics EXCEPT ![cyc[s]] = Received(@, tval[c].metric)]
       /\ tpc' = [tpc EXCEPT ![c] = "loop"]
       /\ tidx' = [tidx EXCEPT ![c] = @ + 1]
       /\ tval' = [tval EXCEPT ![c] = NoMetric]
  /\ UNCHANGED <<app, cfgVars, connVars, goVars, envVars, closeVars, queues, scrapeVars,
                 ctxErr, closed, dlog, inflight, issued, okReads, late, rhandle, failed, gaugeVars>>

MainRecv(s) ==
  /\ Running
  /\ pc[s] = "select"
  /\ tpc[cyc[s]] = "send"
  /\ ~closed[cyc[s]]
  /\ metrics' = [metrics EXCEPT ![cyc[s]] = Received(@, tval[cyc[s]].metric)]
  /\ tpc' = [tpc EXCEPT ![cyc[s]] = "loop"]
  /\ tidx' = [tidx EXCEPT ![cyc[s]] = @ + 1]
  /\ tval' = [tval EXCEPT ![cyc[s]] = NoMetric]
  /\ UNCHANGED <<app, cfgVars, connVars, goVars, envVars, closeVars, queues, scrapeVars,
                 ctxErr, closed, dlog, inflight, issued, okReads, late, rhandle, failed, gaugeVars>>

\* select, case <-ctx.Done(): collect returns &metrics; the deferred close(ch) runs.
CtxDone(c) == ctxErr[c] # "nil"

\* A faulty variant: the message is logged whenever the context is done
DeadlineLoggedAlways(c) == ctxErr[c] # "nil"

\* if ctx.Err() == context.DeadlineExceeded { logger.Error("Deadline exceeded ...") }
DeadlineLogged(c) == ctxErr[c] = "DeadlineExceeded"

MainReturn(s) ==
  /\ Running
  /\ pc[s] = "select"
  /\ CtxDone(cyc[s])
  /\ closed' = [closed EXCEPT ![cyc[s]] = TRUE]
  /\ dlog' = [dlog EXCEPT ![cyc[s]] = DeadlineLogged(cyc[s])]
  /\ pc' = [pc EXCEPT ![s] = "populate"]
  /\ UNCHANGED <<app, cfgVars, connVars, goVars, envVars, closeVars, queues, mutex, cyc, scrapesLeft, emitted,
                 ctxErr, metrics, tpc, tidx, tval, inflight, issued, okReads, late, rhandle, failed, gaugeVars>>

\* "ch <- metric" on the channel collect has closed: the goroutine panics
\* (send on closed channel) and the process dies.
SendOnClosed(c) ==
  /\ Running
  /\ tpc[c] = "send"
  /\ closed[c]
  /\ tpc' = [tpc EXCEPT ![c] = "panic"]
  /\ app' = "crashed"
  /\ UNCHANGED <<cfgVars, connVars, goVars, envVars, closeVars, queues, scrapeVars,
                 ctxErr, closed, dlog, metrics, tidx, tval, inflight, issued, okReads, late, rhandle, failed, gaugeVars>>

\* Collect after collect returned: the gauges are set from the metrics, the six
\* vectors are sent to the registry, and the deferred Unlock runs.
CollectFinish(s) ==
  /\ Running
  /\ pc[s] = "populate"
  /\ LET ms == metrics[cyc[s]] IN
       /\ up' = Populate(up, ms, Ones(ms))
       /\ currentDepth' = Populate(currentDepth, ms, Field(ms, "CurrentDepth"))
       /\ maxDepth' = Populate(maxDepth, ms, Field(ms, "MaxDepth"))
       /\ openInputCount' = Populate(openInputCount, ms, Field(ms, "OpenInputCount"))
       /\ openOutputCount' = Populate(openOutputCount, ms, Field(ms, "OpenOutputCount"))
       /\ requestDuration' = Populate(requestDuration, ms, DurationSeconds(ms))
  /\ emitted' = [sent |-> TRUE, by |-> s, metrics |-> metrics[cyc[s]],
                  up |-> up', current_depth |-> currentDepth',
                  max_depth |-> maxDepth', open_input_count |-> openInputCount',
                  open_output_count |-> openOutputCount',
                  request_duration_seconds |-> requestDuration']
  /\ mutex' = 0
  /\ pc' = [pc EXCEPT ![s] = "idle"]
  /\ metrics' = [metrics EXCEPT ![cyc[s]] = <<>>]
  /\ inflight' = [inflight EXCEPT ![cyc[s]] = 0]
  /\ issued' = [issued EXCEPT ![cyc[s]] = <<>>]
  /\ okReads' = [okReads EXCEPT ![cyc[s]] = {}]
  /\ failed' = [failed EXCEPT ![cyc[s]] = {}]
  /\ UNCHANGED <<app, cfgVars, connVars, goVars, envVars, closeVars, queues, cyc, scrapesLeft,
                 ctxErr, closed, dlog, tpc, tidx, tval, rhandle, late>>

\* ------------------------------------------ run: the signal goroutine, Close
\* "<-app.sigs" returns (SIGINT or SIGTERM) and mqConnection.Close() starts:
\* its range statement takes the map c.queues holds now.
CloseStart ==
  /\ Running
  /\ sig = "wait"
  /\ sig' = "closing"
  /\ cmapId' = qMgr
  /\ cmap' = handles
  /\ ctodo' = DOMAIN handles
  /\ UNCHANGED <<app, cfgVars, connVars, goVars, envVars, clog, cconn, queues,
                 scrapeVars, cycleVars, gaugeVars>>

\* queue.Close failed: "failed to close queue" is logged and the loop goes on
CloseFailed(q) ==
  /\ clog' = clog \cup {q}
  /\ ctodo' = ctodo \ {q}

\* One round of "for _, queue := range c.queues": queue.Close(0) succeeds (on
\* an open handle) or fails.  Ranging over the map while connect() writes it
\* is a data race, which the runtime can end with "fatal error: concurrent map
\* iteration and map write".
CloseQueue ==
  /\ Running
  /\ sig = "closing"
  /\ \/ \E q \in ctodo : \E ok \in BOOLEAN :
          /\ IF ok
               THEN /\ <<cmap[q], q>> \in envHandles
                    /\ envHandles' = envHandles \ {<<cmap[q], q>>}
                    /\ ctodo' = ctodo \ {q}
                    /\ UNCHANGED clog
               ELSE /\ CloseFailed(q)
                    /\ UNCHANGED envHandles
          /\ UNCHANGED app
     \/ /\ MapBeingWritten
        /\ CloseRangesThisMap
        /\ app' = "crashed"
        /\ UNCHANGED <<envHandles, ctodo, clog>>
  /\ UNCHANGED <<cfgVars, connVars, goVars, envConns, brokenConns, sig, cmapId, cmap, cconn,
                 queues, scrapeVars, cycleVars, gaugeVars>>

\* A faulty variant: the loop of Close ends at the first failing queue.Close
CloseLoopDoneOrFailed == ctodo = {} \/ clog # {}

\* The range statement of Close has produced every entry.
CloseLoopDone == ctodo = {}

\* After the loop: c.qMgr.Disc(), whose success ends the connection and with it
\* the object handles opened on it; Close returns.
CloseDisc ==
  /\ Running
  /\ sig = "closing"
  /\ CloseLoopDone
  /\ sig' = "closed"
  /\ cconn' = qMgr
  /\ \E ok \in BOOLEAN :
       IF ok
         THEN /\ qMgr \in envConns
              /\ envConns' = envConns \ {qMgr}
              /\ envHandles' = {h \in envHandles : h[1] # qMgr}
         ELSE UNCHANGED <<envConns, envHandles>>
  /\ UNCHANGED <<app, cfgVars, connVars, goVars, brokenConns, cmapId, cmap, ctodo, clog,
                 queues, scrapeVars, cycleVars, gaugeVars>>

\* server.Shutdown: ListenAndServe returns http.ErrServerClosed, run returns 0
\* and main ends the process with os.Exit.
ServerShutdown ==
  /\ Running
  /\ sig = "closed"
  /\ app' = "stopped"
  /\ UNCHANGED <<cfgVars, connVars, goVars, envVars, closeVars, queues,
                 scrapeVars, cycleVars, gaugeVars>>

Next ==
  \/ \E g \in Goroutines : ConnectCAS(g)
  \/ \E g \in Goroutines : ConnectConnx(g)
  \/ \E g \in Goroutines : ConnectOpen(g)
  \/ \E g \in Goroutines : ConnectReturn(g)
  \/ \E s \in Scrapers : CollectCall(s)
  \/ \E s \in Scrapers : CollectEnter(s)
  \/ \E s \in Scrapers : MainRecv(s)
  \/ \E s \in Scrapers : MainReturn(s)
  \/ \E s \in Scrapers : CollectFinish(s)
  \/ \E c \in Cycles : DeadlineFire(c)
  \/ \E c \in Cycles : TaskRead(c)
  \/ \E c \in Cycles : TaskExit(c)
  \/ \E c \in Cycles : ReadReturn(c)
  \/ \E c \in Cycles : SendOnClosed(c)

Spec == Init /\ [][Next]_vars

SpecConn == InitConn /\ [][Next]_vars

\* The same, with the signal that makes run close the connection and stop.
NextClose ==
  \/ Next
  \/ CloseStart
  \/ CloseQueue
  \/ CloseDisc
  \/ ServerShutdown

SpecClose == InitClose /\ [][NextClose]_vars

\* Scrapes whose caller may cancel the context it passes to collect.
InitParent == InitWith(MaxCycles, 0)

NextParent ==
  \/ Next
  \/ \E c \in Cycles : ParentCancel(c)

SpecParent == InitParent /\ [][NextParent]_vars

\* The Go scheduler runs every goroutine that can run, and an inquiry that was
\* issued returns: the controlling loop of collect, its goroutine and the
\* Reads take a step they can take.  The timer, a new scrape and the steps of
\* connect() are not forced.
Fairness ==
  /\ \A s \in Scrapers : WF_vars(MainRecv(s)) /\ WF_vars(MainReturn(s))
  /\ \A c \in Cycles : WF_vars(TaskRead(c)) /\ WF_vars(TaskExit(c)) /\ WF_vars(ReadReturn(c))

SpecFair == Init /\ [][Next]_vars /\ Fairness

\* The same for the goroutines handleReturnValue starts: each gets to run its
\* connect() up to the compare-and-swap.
FairnessConn == Fairness /\ \A g \in Goroutines : WF_vars(ConnectCAS(g))

SpecConnFair == InitConn /\ [][Next]_vars /\ FairnessConn

\* The validation of the configuration alone.
NextValidate == Validate

SpecValidate == InitValidate /\ [][NextValidate]_vars

\* ------------------------------------------------------------------ claims
\* collect has returned to scraper s and Collect has not yet used the result.
Returned(s) == pc[s] = "populate"

\* The queue names of a slice of QueueMetrics, in order
ResultNames(ms) == [i \in 1..Len(ms) |-> ms[i].Metadata.QueueName]

\* The names of the sources among the first n of the list whose Read succeeded
\* in cycle c, in list order
OkNames(c, n) ==
  LET idx == SelectSeq([i \in 1..n |-> i], LAMBDA i : i \in okReads[c])
  IN  [j \in 1..Len(idx) |-> queues[idx[j]]]

\* C1: when the Read of source k is still in flight at the moment the deadline
\* fires, the result collect returns holds, in list order, exactly the samples
\* of the sources before k whose Read succeeded: none of k, none of a later one.
C1_SlowSourceCutsTheTail ==
  \A s \in Scrapers :
    Returned(s) /\ inflight[cyc[s]] # 0 =>
      ResultNames(metrics[cyc[s]]) = OkNames(cyc[s], inflight[cyc[s]] - 1)

\* C1 witness: three sources, the second one slow, the first one's sample returned
C1_Witness ==
  \E s \in Scrapers :
    /\ Returned(s)
    /\ Len(queues) = 3
    /\ inflight[cyc[s]] = 2
    /\ ResultNames(metrics[cyc[s]]) = <<queues[1]>>

\* C2: in a cycle the deadline did not end, every source was read once in list
\* order, and the result holds exactly the samples of the sources whose Read
\* did not fail, in list order (its size is total minus failing).
C2_FailingSourceIsSkipped ==
  \A s \in Scrapers :
    Returned(s) /\ ctxErr[cyc[s]] = "Canceled" =>
      /\ issued[cyc[s]] = [i \in 1..Len(queues) |-> i]
      /\ ResultNames(metrics[cyc[s]]) = OkNames(cyc[s], Len(queues))
      /\ Len(metrics[cyc[s]]) = Len(queues) - Cardinality((1..Len(queues)) \ okReads[cyc[s]])

\* C2 witness: three sources, the second fails, the first and third are returned
C2_Witness ==
  \E s \in Scrapers :
    /\ Returned(s)
    /\ ctxErr[cyc[s]] = "Canceled"
    /\ okReads[cyc[s]] = {1, 3}
    /\ ResultNames(metrics[cyc[s]]) = <<queues[1], queues[3]>>

\* C3: in a cycle the deadline did not end and in which every Read succeeded,
\* the result has one sample per source and the i-th sample carries the
\* metadata of the i-th source.
C3_OneSamplePerSource ==
  \A s \in Scrapers :
    Returned(s) /\ ctxErr[cyc[s]] = "Canceled" /\ okReads[cyc[s]] = 1..Len(queues) =>
      /\ Len(metrics[cyc[s]]) = Len(queues)
      /\ \A i \in 1..Len(queues) : metrics[cyc[s]][i].Metadata = QueueMetadata(queues[i])

\* C3 witness: a full cycle over three sources
C3_Witness ==
  \E s \in Scrapers :
    /\ Returned(s)
    /\ ctxErr[cyc[s]] = "Canceled"
    /\ Len(queues) = 3
    /\ okReads[cyc[s]] = {1, 2, 3}

\* C4: collect always returns: once its context is done the controlling loop
\* can take the ctx.Done() case and return, whatever the goroutines are doing.
C4_CollectAlwaysReturns ==
  \A s \in Scrapers :
    pc[s] = "select" /\ CtxDone(cyc[s]) => ENABLED MainReturn(s)

\* C5: once collect has returned, its goroutine issues no further Read, and
\* when the Read it had in flight returns the goroutine ends.
C5_NoReadAfterCollectReturned ==
  [][\A c \in Cycles :
       closed[c] =>
         /\ tpc'[c] = "reading" => tpc[c] = "reading"
         /\ tpc[c] = "reading" /\ tpc'[c] # "reading" => tpc'[c] = "done"]_vars

\* The names of the queues the document of the last Collect has a sample for
EmittedNames == { emitted.metrics[i].Metadata.QueueName : i \in 1..Len(emitted.metrics) }

\* C6: in the document a Collect emits, every configured queue without a
\* sample in that cycle's result has up = 0 and no value in the other five
\* vectors.
C6_AbsentQueueHasOnlyUpZero ==
  emitted.sent =>
    \A i \in 1..Len(queues) :
      LET lvs == prometheusLabelValues(QueueMetadata(queues[i])) IN
        queues[i] \notin EmittedNames =>
          /\ lvs \in DOMAIN emitted.up
          /\ emitted.up[lvs] = 0
          /\ lvs \notin DOMAIN emitted.current_depth
          /\ lvs \notin DOMAIN emitted.max_depth
          /\ lvs \notin DOMAIN emitted.open_input_count
          /\ lvs \notin DOMAIN emitted.open_output_count
          /\ lvs \notin DOMAIN emitted.request_duration_seconds

\* C6 witness: the last scrape of the behaviour, with three queues configured,
\* got a sample of the first queue only.
C6_Witness ==
  /\ emitted.sent
  /\ scrapesLeft = 0
  /\ \A s \in Scrapers : pc[s] = "idle"
  /\ Len(queues) = 3
  /\ EmittedNames = {queues[1]}

\* C7: in the document a Collect emits, the gauges under the label values of
\* every sample of the result hold up = 1, the sample's four counts and its
\* request duration in seconds.
C7_SampleSetsItsGauges ==
  emitted.sent =>
    \A i \in 1..Len(emitted.metrics) :
      LET m == emitted.metrics[i]
          lvs == <<m.Metadata.QueueName, m.Metadata.ConnectionName,
                   m.Metadata.QMgrName, m.Metadata.ChannelName>>
      IN  /\ lvs \in DOMAIN emitted.up /\ emitted.up[lvs] = 1
          /\ lvs \in DOMAIN emitted.current_depth
          /\ emitted.current_depth[lvs] = m.CurrentDepth
          /\ lvs \in DOMAIN emitted.max_depth
          /\ emitted.max_depth[lvs] = m.MaxDepth
          /\ lvs \in DOMAIN emitted.open_input_count
          /\ emitted.open_input_count[lvs] = m.OpenInputCount
          /\ lvs \in DOMAIN emitted.open_output_count
          /\ emitted.open_output_count[lvs] = m.OpenOutputCount
          /\ lvs \in DOMAIN emitted.request_duration_seconds
          /\ LET v == emitted.request_duration_seconds[lvs] IN
               /\ v.sec * 1000000000 + v.nsec = m.RequestDuration
               /\ v.nsec \in 0..999999999

\* C7 witness: a document with samples of two queues that differ in every value
C7_Witness ==
  /\ emitted.sent
  /\ Len(emitted.metrics) = 2
  /\ emitted.metrics[1].CurrentDepth # emitted.metrics[2].CurrentDepth
  /\ emitted.metrics[1].RequestDuration > 1000000000

\* C8: every Collect invocation completes (a scrape that has been started can
\* always go on, whatever its sources do), and the document it emits has an
\* up gauge of 0 or 1 for every configured queue.
C8_EveryScrapeCompletes ==
  /\ (\E s \in Scrapers : pc[s] # "idle") => ENABLED Next
  /\ emitted.sent =>
       \A i \in 1..Len(queues) :
         LET lvs == prometheusLabelValues(QueueMetadata(queues[i])) IN
           lvs \in DOMAIN emitted.up /\ emitted.up[lvs] \in {0, 1}

\* Scraper s is between the Lock and the Unlock of Collect.
InCollect(s) == pc[s] \in {"select", "populate"}

\* The label values of the samples in the document of the last Collect
EmittedLabels ==
  { prometheusLabelValues(emitted.metrics[i].Metadata) : i \in 1..Len(emitted.metrics) }

\* C9: Collect invocations are serialized: at most one scraper is between
\* Lock and Unlock and it is the holder of the mutex; the document a Collect
\* emits shows the result of its own cycle and nothing of another scrape (up
\* is 1 exactly for the queues of its result, the other vectors have values
\* for exactly those queues).
C9_ScrapesAreSerialized ==
  /\ \A s, t \in Scrapers : InCollect(s) /\ InCollect(t) => s = t
  /\ \A s \in Scrapers : InCollect(s) <=> mutex = s
  /\ emitted.sent =>
       /\ DOMAIN emitted.up = Labels
       /\ \A l \in Labels : emitted.up[l] = 1 <=> l \in EmittedLabels
       /\ DOMAIN emitted.current_depth = EmittedLabels
       /\ DOMAIN emitted.max_depth = EmittedLabels
       /\ DOMAIN emitted.open_input_count = EmittedLabels
       /\ DOMAIN emitted.open_output_count = EmittedLabels
       /\ DOMAIN emitted.request_duration_seconds = EmittedLabels

\* C9 witness: one scrape waits in Lock while another is inside collect
C9_Witness ==
  \E s, t \in Scrapers : pc[s] = "select" /\ pc[t] = "lock"

\* Goroutine g is inside connect(), past the compare-and-swap.
Connecting(g) == gpc[g] \in {"connx", "open", "ret_ok", "ret_err"}

\* C10: at most one goroutine is inside connect() past the compare-and-swap,
\* and the flag is YES exactly while one is.
C10_OneConnectAtATime ==
  /\ Cardinality({g \in Goroutines : Connecting(g)}) <= 1
  /\ (isConnecting = YES) <=> (\E g \in Goroutines : Connecting(g))

\* C10 witness: a second connection-broken signal has been handled (its
\* connect() lost the compare-and-swap) while the first re-connect is opening
\* queues.
C10_Witness ==
  \E g, h \in Goroutines \ {0} : g # h /\ gpc[g] = "open" /\ gpc[h] = "done"

\* C11: a connection-broken signal that arrives while a connect() is in flight
\* is dropped: the goroutine it starts never runs connect() past the
\* compare-and-swap, neither at once nor after the attempt in flight finished.
C11_SignalDuringReconnectIsDropped ==
  \A g \in during : ~Connecting(g)

\* How often the Read of the source at index i was issued in cycle c
TimesIssued(c, i) == Cardinality({j \in 1..Len(issued[c]) : issued[c][j] = i})

\* C12: a Read that fails with "connection broken" is one inquiry, is not
\* repeated, and hands that error to collect: the source was read once and has
\* no sample in the result of the cycle, whether or not a re-connect succeeded.
C12_BrokenReadFailsForTheCycle ==
  \A s \in Scrapers :
    Returned(s) =>
      \A f \in failed[cyc[s]] :
        f[2] = MQRC_CONNECTION_BROKEN =>
          /\ TimesIssued(cyc[s], f[1]) = 1
          /\ f[1] \notin okReads[cyc[s]]
          /\ \A i \in 1..Len(metrics[cyc[s]]) :
               metrics[cyc[s]][i].Metadata.QueueName # queues[f[1]]

\* C12 witness: the Read of the first of two sources failed with "connection
\* broken", the re-connect it started succeeded, and the second source was read
\* on the new connection; the result holds the second sample only.
C12_Witness ==
  \E s \in Scrapers :
    /\ Returned(s)
    /\ Len(queues) = 2
    /\ failed[cyc[s]] = {<<1, MQRC_CONNECTION_BROKEN>>}
    /\ nconn = 2
    /\ rhandle[cyc[s]] = 2
    /\ ResultNames(metrics[cyc[s]]) = <<queues[2]>>

C14_ReadsInConfigurationOrder ==
  \A c \in Cycles :
    \A j \in 1..Len(issued[c]) : queues[issued[c][j]] = cfgQueues[j]

\* C15: the handle map is never mutated while a reader may resolve a handle
\* from it: connect() replaces and fills the map only before the collector has
\* been handed its MetricSources, and no Read gets the zero MQObject of a
\* missing key.
C15_HandleMapStableForReaders ==
  /\ MapBeingWritten => app = "startup"
  /\ \A c \in Cycles : tpc[c] = "reading" => rhandle[c] # 0

\* C16: a MetricSource never outlives its connection: once Close has started
\* (the signal goroutine of run has called it), no Read is issued.
C16_NoReadAfterCloseStarted ==
  [][sig # "wait" => \A c \in Cycles : tpc'[c] = "reading" => tpc[c] = "reading"]_vars

C18_NothingLeftOpenAfterClose ==
  sig = "closed" =>
    /\ \A k \in envConns : k = cconn \/ k \in brokenConns
    /\ \A h \in envHandles :
         \/ h[1] = cconn
         \/ h[1] \in brokenConns
         \/ h[2] \in clog /\ cmap[h[2]] = h[1]

\* The names of the first n entries of cfg.Queues
FirstQueues(n) == {cfgQueues[i] : i \in 1..n}

\* C19: when Connx or an Open fails during the initial open, NewMqConnection
\* returns the error and no manager: the process ends without a collector, the
\* failed step was tried once and no queue after the failing one was opened;
\* a manager is returned only with every configured queue opened.
C19_FailedInitialOpenYieldsNoManager ==
  /\ app = "exited" =>
       /\ gpc[0] = "done"
       /\ queues = <<>>
       /\ \A s \in Scrapers : pc[s] = "idle"
       /\ \/ nconn = 0 /\ gidx = 0 /\ handles = EmptyVec /\ envHandles = {}
          \/ /\ nconn = 1
             /\ gidx \in 1..Len(cfgQueues)
             /\ DOMAIN handles = FirstQueues(gidx - 1)
             /\ envHandles = {<<1, q>> : q \in FirstQueues(gidx - 1)}
  /\ app = "serving" => DOMAIN handles = FirstQueues(Len(cfgQueues))

\* C19 witness: of three configured queues the second failed to open; the
\* process has ended with one handle opened and the third queue never tried.
C19_Witness ==
  /\ app = "exited"
  /\ Len(cfgQueues) = 3
  /\ nconn = 1
  /\ gidx = 2
  /\ DOMAIN handles = {cfgQueues[1]}

\* C20: an open attempt that fails on an Open leaves nothing dangling: when
\* connect() returns that error, the connection it established is no longer
\* connected and none of the handles it opened on it is open.
C20_FailedOpenLeavesNothingOpen ==
  [][\A g \in Goroutines :
       gpc[g] = "ret_err" /\ gidx >= 1 /\ gpc'[g] = "done" =>
         /\ qMgr \notin envConns'
         /\ \A h \in envHandles' : h[1] # qMgr]_vars

\* validateReadFromYaml has returned for the configuration cfg.
Validated == app # "config"

\* The mandatory fields cfg leaves empty, by the names the message uses, in
\* the order queueManager, connName, channel
MissingOf(c) ==
  LET names == <<"'queueManager'", "'connName'", "'channel'">>
      value == <<c.QueueManager, c.ConnName, c.Channel>>
      idx == SelectSeq(<<1, 2, 3>>, LAMBDA i : value[i] = "")
  IN  [j \in 1..Len(idx) |-> names[idx[j]]]

\* C21: validation fails with "missing mandatory fields" exactly when queue
\* manager, connection name or channel is empty, whatever the credentials, the
\* TLS fields and the timeout are; the error lists exactly the empty ones in
\* the order queueManager, connName, channel.
C21_MissingMandatoryFieldsFirst ==
  Validated =>
    /\ verr.msg = "missing mandatory fields" <=> MissingOf(cfg) # <<>>
    /\ MissingOf(cfg) # <<>> => verr.fields = MissingOf(cfg)

\* C21 witness: queue manager and channel are empty, the password is missing
\* and the timeout is zero; the error names 'queueManager' and 'channel'.
C21_Witness ==
  /\ Validated
  /\ cfg.QueueManager = "" /\ cfg.ConnName # "" /\ cfg.Channel = ""
  /\ cfg.User # "" /\ cfg.Password = ""
  /\ cfg.Timeout = <<0>>
  /\ verr = Errorf("missing mandatory fields", <<"'queueManager'", "'channel'">>)

\* Exactly one of the two fields is set.
ExactlyOne(a, b) == (a = "") # (b = "")

\* C22: with the mandatory fields present, validation fails whenever exactly
\* one of user and password is set (with the user/password message) and
\* whenever exactly one of sslCipherSpec and keyRepository is set (with the
\* TLS message when the credentials are complete); with both or neither member
\* of each pair set it fails with neither message.
C22_PairedFieldsBothOrNeither ==
  Validated /\ MissingOf(cfg) = <<>> =>
    /\ ExactlyOne(cfg.User, cfg.Password) =>
         verr.msg = "requires both 'user' and 'password'"
    /\ ExactlyOne(cfg.SSLCipherSpec, cfg.KeyRepository) =>
         /\ verr # NoError
         /\ ~ExactlyOne(cfg.User, cfg.Password) =>
              verr.msg = "requires both 'sslCipherSpec' and 'keyRepository'"
    /\ ~ExactlyOne(cfg.User, cfg.Password) /\ ~ExactlyOne(cfg.SSLCipherSpec, cfg.KeyRepository) =>
         verr.msg \notin {"requires both 'user' and 'password'",
                          "requires both 'sslCipherSpec' and 'keyRepository'"}

\* C22 witness: a password without a user, everything else valid, is rejected
\* with the user/password message.
C22_Witness ==
  /\ Validated
  /\ MissingOf(cfg) = <<>>
  /\ cfg.User = "" /\ cfg.Password # ""
  /\ cfg.SSLCipherSpec # "" /\ cfg.KeyRepository # ""
  /\ cfg.Timeout = <<1500000000>>
  /\ verr.msg = "requires both 'user' and 'password'"

\* C23: for a configuration whose other fields are valid, validation succeeds
\* if and only if the timeout is given and greater than zero.
C23_TimeoutStrictlyPositive ==
  /\ Validated
  /\ MissingOf(cfg) = <<>>
  /\ ~ExactlyOne(cfg.User, cfg.Password)
  /\ ~ExactlyOne(cfg.SSLCipherSpec, cfg.KeyRepository)
  => (verr = NoError <=> cfg.Timeout # <<>> /\ cfg.Timeout[1] > 0)

\* C24: a cycle over an empty source list returns an empty result, and without
\* waiting for the timeout: the goroutine can leave its loop at once, and once
\* it has, the context is done and collect can return.
C24_EmptyListReturnsEmptyAtOnce ==
  \A s \in Scrapers :
    Len(queues) = 0 =>
      /\ Returned(s) => metrics[cyc[s]] = <<>>
      /\ pc[s] = "select" /\ tpc[cyc[s]] = "loop" => ENABLED TaskExit(cyc[s])
      /\ pc[s] = "select" /\ tpc[cyc[s]] = "done" =>
           CtxDone(cyc[s]) /\ ENABLED MainReturn(s)

\* C24 witness: with no queue configured collect has returned the empty
\* result on the cancel() of its goroutine; no deadline fired.
C24_Witness ==
  \E s \in Scrapers :
    /\ Returned(s)
    /\ Len(queues) = 0
    /\ metrics[cyc[s]] = <<>>
    /\ ctxErr[cyc[s]] = "Canceled"

\* C25: in a cycle over an empty source list no background task is spawned.
C25_EmptyListSpawnsNoTask ==
  \A c \in Cycles : Len(queues) = 0 => tpc[c] = "idle"

\* C26: the deadline-exceeded message is logged for a cycle exactly when
\* collect returned because the timeout elapsed: a cycle that ended by the
\* cancel() of its goroutine after the last source logs none, and a cycle
\* ended by the cancellation of the parent context logs none.
C26_DeadlineLogOnlyOnTimeout ==
  \A c \in Cycles :
    /\ dlog[c] => closed[c]
    /\ closed[c] => (dlog[c] <=> ctxErr[c] = "DeadlineExceeded")
    /\ closed[c] /\ ctxErr[c] = "Canceled" => ~dlog[c]

\* C26 witness: the first cycle ended by its timeout and logged the message;
\* the second was ended by its caller while a Read was under way and logged
\* nothing.
C26_Witness ==
  /\ closed[1] /\ dlog[1] /\ ctxErr[1] = "DeadlineExceeded"
  /\ closed[2] /\ ~dlog[2] /\ ctxErr[2] = "Canceled"
  /\ \E s \in Scrapers : Returned(s) /\ cyc[s] = 2 /\ tpc[2] = "reading"

\* C27: when the deadline fires after the goroutine of collect has obtained a
\* sample and before the controlling loop has received it, the sample is not
\* in the result and the goroutine never sends on the channel collect has
\* closed: it ends normally.
C27_InFlightSampleDiscardedQuietly ==
  \A c \in Cycles :
    /\ closed[c] /\ tpc[c] \in {"send", "panic"} =>
         \A i \in 1..Len(metrics[c]) : metrics[c][i] # tval[c].metric
    /\ ~(closed[c] /\ ctxErr[c] = "DeadlineExceeded" /\ tpc[c] = "panic")

\* C28: the goroutine of collect starts no Read once the deadline of its
\* cycle has passed.
C28_NoReadStartedAfterDeadline ==
  [][\A c \in Cycles :
       ctxErr[c] = "DeadlineExceeded" =>
         (tpc'[c] = "reading" => tpc[c] = "reading")]_vars

\* The sources of cycle c whose Read has returned, with a sample or an error
ReadsReturned(c) == okReads[c] \cup {f[1] : f \in failed[c]}

\* The result of cycle c holds a sample of the j-th source
HasSample(c, j) ==
  \E i \in 1..Len(metrics[c]) : metrics[c][i].Metadata.QueueName = queues[j]

\* C29: a cycle has one goroutine, which issues its Reads one at a time in the
\* order of the list: while collect is in its select, the Reads issued so far
\* are those of the first sources in order, only the last of them can be
\* outstanding, and every earlier one has returned and, if it succeeded, its
\* sample has been received by the controlling loop.
C29_ReadsOneAtATimeInListOrder ==
  \A s \in Scrapers :
    pc[s] = "select" /\ ~closed[cyc[s]] =>
      LET c == cyc[s]
          n == Len(issued[c])
      IN /\ tpc[c] # "idle"
         /\ \A j \in 1..n : issued[c][j] = j
         /\ \A j \in 1..n : j \notin ReadsReturned(c) => j = n /\ tpc[c] = "reading"
         /\ tpc[c] = "reading" => n \notin ReadsReturned(c)
         /\ \A j \in 1..(n - 1) : j \in okReads[c] => HasSample(c, j)

\* C29 witness: the Read of the third source is outstanding after the first
\* Read gave a sample, which is in the result, and the second Read failed.
C29_Witness ==
  \E s \in Scrapers :
    /\ pc[s] = "select" /\ ~closed[cyc[s]]
    /\ issued[cyc[s]] = <<1, 2, 3>>
    /\ tpc[cyc[s]] = "reading"
    /\ okReads[cyc[s]] = {1}
    /\ HasSample(cyc[s], 1)
    /\ \E f \in failed[cyc[s]] : f[1] = 2

\* C30: within one cycle no source is read twice and the result holds no two
\* samples of the same source.
C30_EachSourceAtMostOnce ==
  \A c \in Cycles :
    /\ \A i, j \in 1..Len(issued[c]) : issued[c][i] = issued[c][j] => i = j
    /\ \A i, j \in 1..Len(metrics[c]) :
         ResultNames(metrics[c])[i] = ResultNames(metrics[c])[j] => i = j

\* C30 witness: collect has returned a result with the samples of three
\* sources, each of which was read.
C30_Witness ==
  \E s \in Scrapers :
    /\ Returned(s)
    /\ Len(issued[cyc[s]]) = 3
    /\ Len(metrics[cyc[s]]) = 3

\* C31: the goroutine of collect cancels the context however it leaves its
\* loop, so that, every Read returning, a collect that waits in its select
\* returns.
C31_TaskExitLetsCollectReturn ==
  /\ [](\A c \in Cycles : tpc[c] = "done" => ctxErr[c] # "nil")
  /\ \A s \in Scrapers : (pc[s] = "select") ~> Returned(s)

\* The context of cycle c was cancelled by the caller of collect: it is done
\* with context.Canceled although the goroutine of collect, whose deferred
\* cancel() is the only other source of that error, has not left its loop.
ParentCancelled(c) == ctxErr[c] = "Canceled" /\ tpc[c] # "done"

\* C32: a cycle whose parent context is cancelled ends like one that timed
\* out: collect returns the samples received so far, each of a source whose
\* Read succeeded, and from then on its goroutine delivers nothing: it neither
\* is at the send nor has sent on the channel collect has closed.
C32_ParentCancelEndsLikeTimeout ==
  \A c \in Cycles :
    ParentCancelled(c) /\ closed[c] =>
      /\ \A i \in 1..Len(metrics[c]) : \E j \in okReads[c] :
           metrics[c][i].Metadata.QueueName = queues[j]
      /\ tpc[c] \notin {"send", "panic"}

\* The goroutines handleReturnValue has started so far
Started == {g \in Goroutines \ {0} : gpc[g] # "idle"}

\* C33: a Read that fails with "connection broken" while no connect() is in
\* flight schedules exactly one re-connect attempt: every such failure starts
\* one goroutine, and that goroutine eventually runs its connect().
C33_BrokenReadSchedulesOneReconnect ==
  /\ [](Cardinality(Started) = MaxSignals - breaksLeft)
  /\ \A g \in Goroutines \ {0} : (gpc[g] = "cas" /\ g \notin during) ~> (gpc[g] # "cas")

\* C34: a re-connect attempt that fails is only logged: the return of the
\* failed connect() clears the flag and changes nothing else, the goroutine
\* ends, a goroutine for connect() is started by a connection-broken failure
\* of an inquiry and by nothing else, and a goroutine that reaches the
\* compare-and-swap while the flag is clear starts an attempt.
C34_FailedReconnectIsOnlyLogged ==
  [][/\ \A g \in Goroutines \ {0} :
          gpc[g] = "ret_err" /\ gpc'[g] # "ret_err" =>
            /\ isConnecting' = NO
            /\ gpc'[g] = "done"
            /\ \A h \in Goroutines \ {g} : gpc'[h] = gpc[h]
            /\ app' = app /\ queues' = queues /\ qMgr' = qMgr /\ handles' = handles
     /\ \A g \in Goroutines \ {0} :
          gpc[g] # "cas" /\ gpc'[g] = "cas" =>
            gpc[g] = "idle" /\ breaksLeft' = breaksLeft - 1
     /\ \A g \in Goroutines \ {0} :
          gpc[g] = "cas" /\ gpc'[g] # "cas" /\ isConnecting = NO =>
            isConnecting' = YES /\ gpc'[g] \in {"connx", "ret_ok"}]_vars

\* C34 witness: the first re-connect got a connection, failed at an Open and
\* has returned; the goroutine of the next connection-broken failure has won
\* the compare-and-swap and is about to connect.
C34_Witness ==
  /\ gpc[1] = "done" /\ gpc[2] = "connx"
  /\ nconn = 2 /\ qMgr = 2
  /\ DOMAIN handles # {cfgQueues[i] : i \in 1..Len(cfgQueues)}
  /\ isConnecting = YES

\* C35: a Read that returns without a "connection broken" failure, in
\* particular one that fails for another reason, starts no goroutine for
\* connect() and leaves the connection, the handle map and the flag as they are.
C35_OtherFailureStartsNoReconnect ==
  [][\A c \in Cycles :
       tpc[c] = "reading" /\ tpc'[c] \in {"loop", "done"} /\ breaksLeft' = breaksLeft =>
         /\ gpc' = gpc
         /\ isConnecting' = isConnecting
         /\ qMgr' = qMgr /\ handles' = handles /\ nconn' = nconn
         /\ envConns' = envConns /\ envHandles' = envHandles]_vars

\* C35 witness: the Read of the first source failed for another reason and
\* started nothing; the Read of the second failed with "connection broken"
\* and started the one goroutine there is.
C35_Witness ==
  \E c \in Cycles :
    /\ failed[c] = {<<1, MQRC_OTHER>>, <<2, MQRC_CONNECTION_BROKEN>>}
    /\ gpc[1] = "cas" /\ gpc[2] = "idle"
    /\ isConnecting = NO /\ qMgr = 1
    /\ DOMAIN handles = {cfgQueues[i] : i \in 1..Len(cfgQueues)}

\* C36: when a re-connect attempt has succeeded, every configured queue name
\* maps to a handle that is open on the new connection, and the MqQueues the
\* collector was given at startup, which are never made anew, resolve to
\* these handles.
C36_SourcesReadThroughNewHandles ==
  /\ [](\A g \in Goroutines \ {0} :
          gpc[g] = "ret_ok" =>
            /\ qMgr = nconn /\ qMgr \in envConns
            /\ DOMAIN handles = {cfgQueues[i] : i \in 1..Len(cfgQueues)}
            /\ \A q \in DOMAIN handles : handles[q] = qMgr /\ <<qMgr, q>> \in envHandles
            /\ \A i \in 1..Len(queues) : resolveQueue(queues[i]) = qMgr)
  /\ [][app = "serving" => queues' = queues]_vars

\* C36 witness: the re-connect has succeeded and returned, and a Read of the
\* collector's goroutine, issued through a source made on the first
\* connection, has returned a sample from a handle of the second.
C36_Witness ==
  \E c \in Cycles :
    /\ gpc[1] = "done" /\ isConnecting = NO
    /\ nconn = 2 /\ qMgr = 2
    /\ DOMAIN handles = {cfgQueues[i] : i \in 1..Len(cfgQueues)}
    /\ \A q \in DOMAIN handles : handles[q] = 2
    /\ rhandle[c] = 2 /\ tpc[c] = "send"

\* C37: the goroutine a timed-out collect left behind contributes nothing
\* afterwards: no step it takes once its collect has returned changes the
\* result of any cycle, a gauge or what was emitted, and every sample in the
\* result of a cycle is of a Read of that cycle.
C37_AbandonedTaskContributesNothing ==
  /\ [][\A c \in Cycles :
          closed[c] /\ tpc'[c] # tpc[c] =>
            metrics' = metrics /\ gaugeVars' = gaugeVars /\ emitted' = emitted]_vars
  /\ [](\A c \in Cycles : \A i \in 1..Len(metrics[c]) :
          \E j \in okReads[c] : metrics[c][i].Metadata.QueueName = queues[j])

\* C37 witness: the first cycle timed out with a Read under way; that Read
\* returned while the second collect was in its select, and the second collect
\* has returned the samples of its own Reads, one per source.
C37_Witness ==
  \E s \in Scrapers :
    /\ late = {1} /\ tpc[1] = "done" /\ ctxErr[1] = "DeadlineExceeded"
    /\ cyc[s] = 2 /\ Returned(s)
    /\ Len(queues) = 2
    /\ okReads[2] = {1, 2}
    /\ ResultNames(metrics[2]) = <<queues[1], queues[2]>>

\* The connection the manager holds is healthy: it is connected, no inquiry
\* has reported it broken, and every configured queue has an open handle on it.
Healthy ==
  /\ qMgr \in envConns \ brokenConns
  /\ DOMAIN handles = {cfgQueues[i] : i \in 1..Len(cfgQueues)}
  /\ \A q \in DOMAIN handles : handles[q] = qMgr /\ <<qMgr, q>> \in envHandles

\* C38: a re-connect attempt starts only while the current connection is
\* broken: no goroutine of handleReturnValue gets past the compare-and-swap
\* of connect() while the manager holds a healthy connection.
C38_NoReconnectOfHealthyConnection ==
  [][\A g \in Goroutines \ {0} :
       gpc[g] = "cas" /\ gpc'[g] \in {"connx", "ret_ok"} => ~Healthy]_vars

====
